---------------------------- MODULE Spec2Model ----------------------------
(***************************************************************************)
(* A model of the Daily News Simplifier: NewsSummarizer.summarize_article  *)
(* and NewsSummarizer._split_into_sentences (news_paper_summarizer.py),    *)
(* NewsFetcher.fetch_news, and the two presenters that drive them:         *)
(* DailyNewsApp.run (the command line) and the fetch handler of app.py.    *)
(*                                                                         *)
(* A text is a sequence of characters, each a one-character string; a      *)
(* character outside ASCII is written by its code point ("U+2022").  The   *)
(* length of a text is its number of code points, as Python's len().       *)
(***************************************************************************)
EXTENDS Integers, Sequences, FiniteSets

VARIABLES
  mode,        \* "unit": one call of the summarizer; "app": a presenter's run
  article,     \* unit: the article handed to the summarizer
  pc,          \* unit: "ready", "summarized", "split"; app: the place in the run
  summary,     \* unit: what summarize_article returned; app: the local summary
  sentences,   \* unit: what _split_into_sentences returned
  api_key,     \* app: NewsConfig.api_key
  frontend,    \* app: "cli" (DailyNewsApp.run) or "web" (app.py)
  voice,       \* app: --voice, or the Read Aloud checkbox
  engine,      \* app: VoiceReader.engine is not None
  world,       \* app: what the news API does with a request
  fetched,     \* app: how fetch_news ended
  articles,    \* app: the local articles
  idx,         \* app: the loop's i
  k,           \* app: the next bullet to speak
  log          \* app: the calls made so far, in order

vars == <<mode, article, pc, summary, sentences, api_key, frontend, voice,
          engine, world, fetched, articles, idx, k, log>>

unitVars == <<mode, article, sentences>>
appConf == <<api_key, frontend, voice, engine, world>>

---------------------------------------------------------------------------
(* Bounds of the inputs.                                                   *)

\* The longest free-form tail of an input text.
MaxBody == 4

\* The most articles a response of the news API carries.
MaxArticles == 2

---------------------------------------------------------------------------
(* Characters and fixed texts.                                             *)

\* len(text) < 50, the short-text threshold.
ShortLimit == 50

\* The marker glyph of the short path, U+1F4F0 (newspaper).
NewsGlyph == "U+1F4F0"

\* The bullet glyph, U+2022.
BulletGlyph == "U+2022"

\* The character class [.!?] of the splitting pattern.
Delimiters == {".", "!", "?"}

IsDelimiter(c) == c \in Delimiters

\* The whitespace str.strip() removes.
IsSpace(c) == c \in {" ", "\t", "\n"}

\* The fallback bullet of line 131.
NoContentMsg ==
  << "N", "o", " ", "c", "o", "n", "t", "e", "n", "t", " ", "a", "v",
     "a", "i", "l", "a", "b", "l", "e", " ", "f", "o", "r", " ", "t",
     "h", "i", "s", " ", "a", "r", "t", "i", "c", "l", "e", "." >>

\* The fallback bullet of line 161.
CouldNotMsg ==
  << "U+2022", " ", "C", "o", "n", "t", "e", "n", "t", " ", "c", "o",
     "u", "l", "d", " ", "n", "o", "t", " ", "b", "e", " ", "s", "u",
     "m", "m", "a", "r", "i", "z", "e", "d", "." >>

---------------------------------------------------------------------------
(* str.strip(), re.split and the summarizer.                               *)

\* str.strip(): the text without its leading and trailing whitespace.
Strip(s) ==
  LET keep == {i \in 1..Len(s) : ~IsSpace(s[i])}
  IN  IF keep = {} THEN <<>>
      ELSE LET lo == CHOOSE i \in keep : \A j \in keep : i <= j
               hi == CHOOSE i \in keep : \A j \in keep : j <= i
           IN  SubSeq(s, lo, hi)

\* str.endswith('.')
EndsWithDot(s) == Len(s) > 0 /\ s[Len(s)] = "."

\* The least index from i on whose character is (want) or is not a
\* delimiter; Len(text) + 1 when there is none.
Scan(text, i, want) ==
  LET hits == {j \in i..Len(text) : IsDelimiter(text[j]) = want}
  IN  IF hits = {} THEN Len(text) + 1
      ELSE CHOOSE j \in hits : \A m \in hits : j <= m

\* re.split from index i on: the piece up to the next match of [.!?]+, which
\* takes the whole run of delimiters, then the pieces after that match; a
\* piece may be empty, and the rest of the text is the last piece.
RECURSIVE SplitFrom(_, _)
SplitFrom(text, i) ==
  LET m == Scan(text, i, TRUE)
  IN  IF m > Len(text) THEN <<SubSeq(text, i, Len(text))>>
      ELSE <<SubSeq(text, i, m - 1)>> \o SplitFrom(text, Scan(text, m, FALSE))

\* re.split(r'[.!?]+', text)
re_split(text) == SplitFrom(text, 1)

\* [f(x) for x in xs if keep(x)] with f = strip and keep = non-empty strip.
RECURSIVE StripNonEmpty(_)
StripNonEmpty(xs) ==
  IF xs = <<>> THEN <<>>
  ELSE LET s == Strip(Head(xs))
       IN  (IF s # <<>> THEN <<s>> ELSE <<>>) \o StripNonEmpty(Tail(xs))

\* [s for s in sentences if s.strip()]: the kept pieces not stripped.
RECURSIVE KeepNonEmpty(_)
KeepNonEmpty(xs) ==
  IF xs = <<>> THEN <<>>
  ELSE (IF Strip(Head(xs)) # <<>> THEN <<Head(xs)>> ELSE <<>>)
       \o KeepNonEmpty(Tail(xs))

\* _split_into_sentences without the strip of each piece.
split_into_sentences_unstripped(text) == KeepNonEmpty(re_split(text))

\* NewsSummarizer._split_into_sentences
split_into_sentences(text) == StripNonEmpty(re_split(text))

\* content = description or title
Content(a) == IF a.description # <<>> THEN a.description ELSE a.title

\* f"• {s}"
Bullet(s) == <<BulletGlyph, " ">> \o s

\* The list comprehension of line 142: a bullet per sentence whose strip is
\* not empty; no full stop is added here.
RECURSIVE FewBullets(_)
FewBullets(ss) ==
  IF ss = <<>> THEN <<>>
  ELSE LET s == Strip(Head(ss))
       IN  (IF s # <<>> THEN <<Bullet(s)>> ELSE <<>>) \o FewBullets(Tail(ss))

\* The selection with the middle taken at (len - 1) // 2.
ImportantSentences_low_middle(ss) ==
  (IF ss # <<>> THEN <<ss[1]>> ELSE <<>>)
  \o (IF Len(ss) > 2 THEN <<ss[((Len(ss) - 1) \div 2) + 1]>> ELSE <<>>)
  \o (IF Len(ss) > 1 THEN <<ss[Len(ss)]>> ELSE <<>>)

\* Lines 145-151: the first sentence, the one at len // 2, the last one.
ImportantSentences(ss) ==
  (IF ss # <<>> THEN <<ss[1]>> ELSE <<>>)
  \o (IF Len(ss) > 2 THEN <<ss[(Len(ss) \div 2) + 1]>> ELSE <<>>)
  \o (IF Len(ss) > 1 THEN <<ss[Len(ss)]>> ELSE <<>>)

\* Lines 156-159: strip, add a full stop to a non-empty sentence that has
\* none, prefix the bullet glyph.
FormatBullet(sentence) ==
  LET clean == Strip(sentence)
  IN  Bullet(IF clean # <<>> /\ ~EndsWithDot(clean)
             THEN Append(clean, ".") ELSE clean)

\* Lines 154-161 for important_sentences[:3].
SelectedBullets(ss) ==
  LET imp  == ImportantSentences(ss)
      top  == SubSeq(imp, 1, IF Len(imp) < 3 THEN Len(imp) ELSE 3)
      bullets == [n \in 1..Len(top) |-> FormatBullet(top[n])]
  IN  IF bullets # <<>> THEN bullets ELSE <<CouldNotMsg>>

\* summarize_article with the short path returning the content as given,
\* not stripped.
summarize_article_raw_short(a) ==
  LET content == Content(a)
      text    == Strip(content)
      ss      == split_into_sentences(text)
  IN  IF content = <<>> THEN <<NoContentMsg>>
      ELSE IF Len(text) < ShortLimit THEN << <<NewsGlyph, " ">> \o content >>
      ELSE IF Len(ss) <= 3 THEN FewBullets(ss)
      ELSE SelectedBullets(ss)

\* NewsSummarizer.summarize_article
summarize_article(a) ==
  LET content == Content(a)
      text    == Strip(content)
      ss      == split_into_sentences(text)
  IN  IF content = <<>> THEN <<NoContentMsg>>
      ELSE IF Len(text) < ShortLimit THEN << <<NewsGlyph, " ">> \o text >>
      ELSE IF Len(ss) <= 3 THEN FewBullets(ss)
      ELSE SelectedBullets(ss)

---------------------------------------------------------------------------
(* The inputs of a unit call.                                              *)

\* Two letters, the space and two of the delimiters; the third delimiter is
\* in a stem.
Alphabet == {"a", "b", " ", ".", "?"}

Fill(c, n) == [i \in 1..n |-> c]

\* Every text over the alphabet of at most MaxBody characters.
Bodies == UNION {[1..n -> Alphabet] : n \in 0..MaxBody}

\* What a body is appended to: nothing; one long word; delimiters only; two
\* short sentences and a long word, after a leading space.  A stem is
\* ShortLimit - MaxBody characters long once stripped, so that the bodies
\* take the text to either side of the threshold.
Stems ==
  { <<>>,
    Fill("x", ShortLimit - MaxBody),
    Fill(".", ShortLimit - MaxBody),
    <<" ", "b", "!", " ", "a", "!", " ">> \o Fill("x", ShortLimit - MaxBody - 6) }

Texts == {s \o b : s \in Stems, b \in Bodies}

\* Articles as the summarizer reads them: a text as the description with and
\* without a title, and a text as the title of an article without description.
Articles ==
  {[title |-> <<>>, description |-> t] : t \in Texts}
  \cup {[title |-> <<"t">>, description |-> t] : t \in Bodies}
  \cup {[title |-> t, description |-> <<>>] : t \in Bodies}

---------------------------------------------------------------------------
(* NewsFetcher.                                                            *)

DemoTitle1 ==
  << "U+1F680", " ", "D", "e", "m", "o", ":", " ", "A", "I", " ", "B",
     "r", "e", "a", "k", "t", "h", "r", "o", "u", "g", "h", " ", "i",
     "n", " ", "H", "e", "a", "l", "t", "h", "c", "a", "r", "e" >>

DemoDescription1 ==
  << "R", "e", "s", "e", "a", "r", "c", "h", "e", "r", "s", " ", "d",
     "e", "v", "e", "l", "o", "p", " ", "n", "e", "w", " ", "A", "I",
     " ", "s", "y", "s", "t", "e", "m", " ", "t", "h", "a", "t", " ",
     "c", "a", "n", " ", "d", "i", "a", "g", "n", "o", "s", "e", " ",
     "d", "i", "s", "e", "a", "s", "e", "s", " ", "w", "i", "t", "h",
     " ", "9", "5", "%", " ", "a", "c", "c", "u", "r", "a", "c", "y",
     ",", " ", "p", "o", "t", "e", "n", "t", "i", "a", "l", "l", "y",
     " ", "r", "e", "v", "o", "l", "u", "t", "i", "o", "n", "i", "z",
     "i", "n", "g", " ", "m", "e", "d", "i", "c", "a", "l", " ", "d",
     "i", "a", "g", "n", "o", "s", "i", "s", " ", "w", "o", "r", "l",
     "d", "w", "i", "d", "e", "." >>

DemoTitle2 ==
  << "U+26A1", " ", "D", "e", "m", "o", ":", " ", "R", "e", "n", "e",
     "w", "a", "b", "l", "e", " ", "E", "n", "e", "r", "g", "y", " ",
     "M", "i", "l", "e", "s", "t", "o", "n", "e", " ", "R", "e", "a",
     "c", "h", "e", "d" >>

DemoDescription2 ==
  << "S", "o", "l", "a", "r", " ", "a", "n", "d", " ", "w", "i", "n",
     "d", " ", "p", "o", "w", "e", "r", " ", "n", "o", "w", " ", "a",
     "c", "c", "o", "u", "n", "t", " ", "f", "o", "r", " ", "o", "v",
     "e", "r", " ", "5", "0", "%", " ", "o", "f", " ", "e", "l", "e",
     "c", "t", "r", "i", "c", "i", "t", "y", " ", "g", "e", "n", "e",
     "r", "a", "t", "i", "o", "n", " ", "i", "n", " ", "s", "e", "v",
     "e", "r", "a", "l", " ", "c", "o", "u", "n", "t", "r", "i", "e",
     "s", ",", " ", "m", "a", "r", "k", "i", "n", "g", " ", "a", " ",
     "h", "i", "s", "t", "o", "r", "i", "c", " ", "s", "h", "i", "f",
     "t", " ", "t", "o", "w", "a", "r", "d", " ", "c", "l", "e", "a",
     "n", " ", "e", "n", "e", "r", "g", "y", "." >>

DemoTitle3 ==
  << "U+1F30D", " ", "D", "e", "m", "o", ":", " ", "C", "l", "i", "m",
     "a", "t", "e", " ", "S", "u", "m", "m", "i", "t", " ", "R", "e",
     "a", "c", "h", "e", "s", " ", "H", "i", "s", "t", "o", "r", "i",
     "c", " ", "A", "g", "r", "e", "e", "m", "e", "n", "t" >>

DemoDescription3 ==
  << "W", "o", "r", "l", "d", " ", "l", "e", "a", "d", "e", "r", "s",
     " ", "a", "g", "r", "e", "e", " ", "o", "n", " ", "a", "m", "b",
     "i", "t", "i", "o", "u", "s", " ", "n", "e", "w", " ", "c", "l",
     "i", "m", "a", "t", "e", " ", "t", "a", "r", "g", "e", "t", "s",
     ",", " ", "i", "n", "c", "l", "u", "d", "i", "n", "g", " ", "c",
     "a", "r", "b", "o", "n", " ", "n", "e", "u", "t", "r", "a", "l",
     "i", "t", "y", " ", "b", "y", " ", "2", "0", "5", "0", " ", "a",
     "n", "d", " ", "m", "a", "s", "s", "i", "v", "e", " ", "i", "n",
     "v", "e", "s", "t", "m", "e", "n", "t", " ", "i", "n", " ", "g",
     "r", "e", "e", "n", " ", "t", "e", "c", "h", "n", "o", "l", "o",
     "g", "y", "." >>

\* NewsFetcher._get_demo_news; publishedAt, the time of the call, is left
\* out: nothing reads it.
get_demo_news ==
  << [title |-> DemoTitle1, description |-> DemoDescription1,
      url |-> "https://example.com/ai-healthcare"],
     [title |-> DemoTitle2, description |-> DemoDescription2,
      url |-> "https://example.com/renewable-energy"],
     [title |-> DemoTitle3, description |-> DemoDescription3,
      url |-> "https://example.com/climate-summit"] >>

\* What a request can meet: session.get raising (no connection, a timeout),
\* raise_for_status raising on an HTTP error status, response.json() raising
\* on a body that is no JSON, a body whose status is not 'ok', a body with
\* status 'ok' and no articles key, and a body with status 'ok' and articles.
Outcomes ==
  {"network_error", "http_error", "bad_json", "api_error", "ok_no_articles", "ok"}

\* The try block of lines 77-90: the exception it raises, if any, and the
\* value it returns otherwise.
TryRequest(w) ==
  CASE w.outcome = "network_error"  -> [exc |-> "RequestException", value |-> <<>>]
    [] w.outcome = "http_error"     -> [exc |-> "RequestException", value |-> <<>>]
    [] w.outcome = "bad_json"       -> [exc |-> "Exception", value |-> <<>>]
    [] w.outcome = "api_error"      -> [exc |-> "none", value |-> <<>>]
    [] w.outcome = "ok_no_articles" -> [exc |-> "none", value |-> <<>>]
    [] w.outcome = "ok"             -> [exc |-> "none", value |-> w.articles]

\* The except clauses without the last one.
Caught_request_only == {"RequestException"}

\* The exceptions the except clauses of lines 92-97 catch.
Caught == {"RequestException", "Exception"}

\* NewsFetcher.fetch_news: whether it raised, what it returned, and the
\* number of requests it sent.
fetch_news(key, w) ==
  IF key = ""
  THEN [raised |-> FALSE, value |-> get_demo_news, requests |-> 0]
  ELSE LET r == TryRequest(w)
       IN  IF r.exc = "none"
           THEN [raised |-> FALSE, value |-> r.value, requests |-> 1]
           ELSE IF r.exc \in Caught
           THEN [raised |-> FALSE, value |-> <<>>, requests |-> 1]
           ELSE [raised |-> TRUE, value |-> <<>>, requests |-> 1]

\* The articles a response is made of: a headline only, four sentences, and
\* delimiters only.
ArticlePool ==
  { [title |-> <<" ", "a">>, description |-> <<>>, url |-> "u1"],
    [title |-> <<"t">>,
     description |-> <<"a", ".", "b", "?", "a", "!", " ">> \o Fill("x", ShortLimit),
     url |-> "u2"],
    [title |-> <<"d">>, description |-> Fill(".", ShortLimit), url |-> ""] }

ArticleLists == UNION {[1..n -> ArticlePool] : n \in 0..MaxArticles}

\* A response carries articles when its status is 'ok', and may carry them
\* beside an error status.
Worlds ==
  {[outcome |-> o, articles |-> <<>>] : o \in Outcomes \ {"ok"}}
  \cup {[outcome |-> o, articles |-> as] : o \in {"ok", "api_error"}, as \in ArticleLists}

---------------------------------------------------------------------------
(* The unit calls.                                                         *)

NoArticle == [title |-> <<>>, description |-> <<>>]
\* The API out of reach: all there is to say of it when no request is sent.
NoWorld == [outcome |-> "network_error", articles |-> <<>>]
NotFetched == [raised |-> FALSE, value |-> <<>>, requests |-> 0]

InitUnit ==
  /\ mode = "unit"
  /\ article \in Articles
  /\ pc = "ready"
  /\ summary = <<>>
  /\ sentences = <<>>
  /\ api_key = ""
  /\ frontend = "cli"
  /\ voice = FALSE
  /\ engine = FALSE
  /\ world = NoWorld
  /\ fetched = NotFetched
  /\ articles = <<>>
  /\ idx = 0
  /\ k = 0
  /\ log = <<>>

\* summary = NewsSummarizer.summarize_article(article)
Summarize ==
  /\ mode = "unit"
  /\ pc = "ready"
  /\ summary' = summarize_article(article)
  /\ pc' = "summarized"
  /\ UNCHANGED <<unitVars, appConf, fetched, articles, idx, k, log>>

\* sentences = NewsSummarizer._split_into_sentences(content), on the raw
\* content of the article.
SplitSentences ==
  /\ mode = "unit"
  /\ pc = "ready"
  /\ sentences' = split_into_sentences(Content(article))
  /\ pc' = "split"
  /\ UNCHANGED <<mode, article, summary, appConf, fetched, articles, idx, k, log>>

---------------------------------------------------------------------------
(* DailyNewsApp.run and the fetch handler of app.py.                       *)

InitApp ==
  /\ mode = "app"
  /\ article = NoArticle
  /\ pc = "start"
  /\ summary = <<>>
  /\ sentences = <<>>
  /\ api_key \in {"", "KEY"}
  /\ frontend \in {"cli", "web"}
  /\ voice \in BOOLEAN
  /\ engine \in BOOLEAN
  /\ world \in (IF api_key = "" THEN {NoWorld} ELSE Worlds)
  /\ fetched = NotFetched
  /\ articles = <<>>
  /\ idx = 0
  /\ k = 0
  /\ log = <<>>

Speaking == voice /\ engine

\* Where the run goes after article i: the next article, or the end of the
\* loop (the footer of the command line; nothing more on the web page).
AfterArticle(i) ==
  IF i < Len(articles) THEN "summarize"
  ELSE IF frontend = "cli" THEN "footer" ELSE "done"

\* articles = fetcher.fetch_news(category, country); the run ends when it
\* raises or returns nothing.
Fetch ==
  /\ mode = "app"
  /\ pc = "start"
  /\ fetched' = fetch_news(api_key, world)
  /\ articles' = fetched'.value
  /\ IF fetched'.raised THEN pc' = "crashed" /\ idx' = idx
     ELSE IF fetched'.value = <<>> THEN pc' = "done" /\ idx' = idx
     ELSE pc' = "summarize" /\ idx' = 1
  /\ UNCHANGED <<unitVars, appConf, summary, k, log>>

\* The loop summarizing the first article at every turn.
SummarizeNext_first ==
  /\ mode = "app"
  /\ pc = "summarize"
  /\ summary' = summarize_article(articles[1])
  /\ log' = Append(log, [op |-> "summarize", i |-> idx, text |-> <<>>])
  /\ pc' = "display"
  /\ UNCHANGED <<unitVars, appConf, fetched, articles, idx, k>>

\* summary = summarizer.summarize_article(article), the loop's next article;
\* the web page writes the article's heading and link first (app.py, lines
\* 55-58), which are not part of the log.
SummarizeNext ==
  /\ mode = "app"
  /\ pc = "summarize"
  /\ summary' = summarize_article(articles[idx])
  /\ log' = Append(log, [op |-> "summarize", i |-> idx, text |-> <<>>])
  /\ pc' = "display"
  /\ UNCHANGED <<unitVars, appConf, fetched, articles, idx, k>>

\* display_article(i, article, summary), or st.markdown(bullet) for each
\* bullet; then the voice reading, if enabled and there is an engine.
Display ==
  /\ mode = "app"
  /\ pc = "display"
  /\ log' = Append(log, [op |-> "display", i |-> idx, text |-> summary])
  /\ pc' = IF Speaking
           THEN (IF frontend = "cli" THEN "speak_title" ELSE "button")
           ELSE AfterArticle(idx)
  /\ idx' = IF Speaking \/ idx >= Len(articles) THEN idx ELSE idx + 1
  /\ UNCHANGED <<unitVars, appConf, fetched, articles, summary, k>>

\* st.button(f"Read Article {i}"): pressed or not.
Button ==
  /\ mode = "app"
  /\ pc = "button"
  /\ \E pressed \in BOOLEAN :
       IF pressed THEN pc' = "speak_title" /\ idx' = idx
       ELSE /\ pc' = AfterArticle(idx)
            /\ idx' = IF idx >= Len(articles) THEN idx ELSE idx + 1
  /\ UNCHANGED <<unitVars, appConf, fetched, articles, summary, k, log>>

\* voice_reader.speak(f"Article {i}: {title}"), or voice.speak(title).
SpeakTitle ==
  /\ mode = "app"
  /\ pc = "speak_title"
  /\ log' = Append(log, [op |-> "speak_title", i |-> idx,
                         text |-> articles[idx].title])
  /\ k' = 1
  /\ pc' = "speak_bullet"
  /\ UNCHANGED <<unitVars, appConf, fetched, articles, summary, idx>>

\* for bullet in summary: voice_reader.speak(bullet); after the last one the
\* command line sleeps and the web page goes on.
SpeakBullet ==
  /\ mode = "app"
  /\ pc = "speak_bullet"
  /\ IF k <= Len(summary)
     THEN /\ log' = Append(log, [op |-> "speak", i |-> idx, text |-> summary[k]])
          /\ k' = k + 1
          /\ UNCHANGED <<pc, idx>>
     ELSE /\ pc' = IF frontend = "cli" THEN "sleep" ELSE AfterArticle(idx)
          /\ idx' = IF frontend = "cli" \/ idx >= Len(articles) THEN idx ELSE idx + 1
          /\ UNCHANGED <<k, log>>
  /\ UNCHANGED <<unitVars, appConf, fetched, articles, summary>>

\* time.sleep(0.5), the pause between two articles.
Sleep ==
  /\ mode = "app"
  /\ pc = "sleep"
  /\ pc' = AfterArticle(idx)
  /\ idx' = IF idx >= Len(articles) THEN idx ELSE idx + 1
  /\ UNCHANGED <<unitVars, appConf, fetched, articles, summary, k, log>>

\* except KeyboardInterrupt: the user's Ctrl+C while the try block of lines
\* 298-303 runs; the loop is left by break.
KeyboardInterrupt ==
  /\ mode = "app"
  /\ frontend = "cli"
  /\ pc \in {"speak_title", "speak_bullet", "sleep"}
  /\ log' = Append(log, [op |-> "stopped", i |-> idx, text |-> <<>>])
  /\ pc' = "footer"
  /\ UNCHANGED <<unitVars, appConf, fetched, articles, summary, idx, k>>

\* self.display.display_footer()
Footer ==
  /\ mode = "app"
  /\ pc = "footer"
  /\ pc' = "done"
  /\ UNCHANGED <<unitVars, appConf, fetched, articles, summary, idx, k, log>>

---------------------------------------------------------------------------

Init == InitUnit \/ InitApp

Next ==
  \/ Summarize
  \/ SplitSentences
  \/ Fetch
  \/ SummarizeNext
  \/ Display
  \/ Button
  \/ SpeakTitle
  \/ SpeakBullet
  \/ Sleep
  \/ KeyboardInterrupt
  \/ Footer

Spec == Init /\ [][Next]_vars

---------------------------------------------------------------------------
(* The statements checked.  They are written from the specification's      *)
(* words, with their own trimming and their own sentence list.             *)

\* The text without its leading spaces.
RECURSIVE TrimLeft(_)
TrimLeft(s) == IF s # <<>> /\ Head(s) = " " THEN TrimLeft(Tail(s)) ELSE s

\* The text without its trailing spaces.
RECURSIVE TrimRight(_)
TrimRight(s) ==
  IF s # <<>> /\ s[Len(s)] = " " THEN TrimRight(SubSeq(s, 1, Len(s) - 1)) ELSE s

Trim(s) == TrimRight(TrimLeft(s))

IsPunct(c) == c = "." \/ c = "!" \/ c = "?"

\* Where a fragment between two runs of delimiters starts.
FragmentStarts(t) ==
  {i \in 1..Len(t) : ~IsPunct(t[i]) /\ (i = 1 \/ IsPunct(t[i - 1]))}

\* Where the fragment that starts at i ends.
FragmentEnd(t, i) ==
  CHOOSE j \in i..Len(t) :
    /\ \A m \in i..j : ~IsPunct(t[m])
    /\ j = Len(t) \/ IsPunct(t[j + 1])

\* The starts of the fragments that are not blank.
KeptStarts(t) ==
  {i \in FragmentStarts(t) : \E m \in i..FragmentEnd(t, i) : t[m] # " "}

\* The fragments between maximal runs of delimiters, trimmed, the blank ones
\* discarded, in the order of the text.
Fragments(t) ==
  LET kept == KeptStarts(t)
  IN  [n \in 1..Cardinality(kept) |->
         LET i == CHOOSE i \in kept : Cardinality({j \in kept : j <= i}) = n
         IN  Trim(SubSeq(t, i, FragmentEnd(t, i)))]

\* The content of the article of the unit call: the description if not
\* empty, else the title; and that content trimmed.
EffectiveContent ==
  IF article.description # <<>> THEN article.description ELSE article.title

Trimmed == Trim(EffectiveContent)

\* The sentence list of the trimmed content.
SentenceList == Fragments(Trimmed)

HasBulletPrefix(b) == Len(b) >= 2 /\ b[1] = "U+2022" /\ b[2] = " "

EndsInFullStop(b) == b # <<>> /\ b[Len(b)] = "."

\* "• " followed by the sentence and a full stop.
Dotted(s) == <<"U+2022", " ">> \o s \o <<".">>

\* The result is the single bullet of the short path.
ShortPathTaken ==
  Len(summary) = 1 /\ summary[1] # <<>> /\ summary[1][1] = "U+1F4F0"

\* The result is a list of "• " bullets, as the long path makes them.
LongPathTaken == \A n \in 1..Len(summary) : HasBulletPrefix(summary[n])

Summarized == mode = "unit" /\ pc = "summarized"

\* C1: for every article, summarize_article returns a Summary that is not
\* empty and has between 1 and 3 bullets.
C1_SummaryNeverEmpty == Summarized => Len(summary) \in 1..3

\* C2: when the trimmed content has at least 50 characters and its sentence
\* list s has n > 3 elements, the result is exactly three bullets: s[0],
\* s[floor(n/2)] and s[n-1] (0-indexed), in this order, each the trimmed
\* sentence prefixed with "• " and ending in ".".
C2_FirstMiddleLast ==
  (Summarized /\ Len(Trimmed) >= 50 /\ Len(SentenceList) > 3) =>
    LET s == SentenceList
        n == Len(s)
    IN  /\ summary = <<Dotted(s[1]), Dotted(s[(n \div 2) + 1]), Dotted(s[n])>>
        /\ \A m \in 1..3 : HasBulletPrefix(summary[m]) /\ EndsInFullStop(summary[m])

\* C2's case: four sentences, the third one, not the second, is the middle.
C2_Witness ==
  /\ Summarized
  /\ Len(Trimmed) >= 50
  /\ Len(SentenceList) = 4
  /\ SentenceList[2] # SentenceList[3]
  /\ Len(summary) = 3
  /\ summary[2] = Dotted(SentenceList[3])

\* C3: when the trimmed content has at least 50 characters and its sentence
\* list has k elements, 1 <= k <= 3, the result is exactly k bullets, one per
\* sentence in the original order, each prefixed with "• " and each ending
\* in ".".
C3_FewSentencesEndInFullStop ==
  (Summarized /\ Len(Trimmed) >= 50 /\ Len(SentenceList) \in 1..3) =>
    /\ Len(summary) = Len(SentenceList)
    /\ \A m \in 1..Len(summary) :
         /\ HasBulletPrefix(summary[m])
         /\ EndsInFullStop(summary[m])
         /\ summary[m] \in {<<"U+2022", " ">> \o SentenceList[m],
                            Dotted(SentenceList[m])}

\* C4: when the content is not empty after trimming and shorter than 50
\* characters after trimming, the result is the one bullet "📰 " followed by
\* the trimmed content, whatever punctuation it holds.
C4_ShortContentPassedThrough ==
  (Summarized /\ Trimmed # <<>> /\ Len(Trimmed) < 50) =>
    summary = << <<"U+1F4F0", " ">> \o Trimmed >>

\* C4's case: a short content with punctuation in it and a space around it.
C4_Witness ==
  /\ Summarized
  /\ Len(Trimmed) \in 1..49
  /\ Len(Trimmed) < Len(EffectiveContent)
  /\ \E m \in 1..Len(Trimmed) : IsPunct(Trimmed[m])
  /\ summary = << <<"U+1F4F0", " ">> \o Trimmed >>

\* C5: when the content is empty after trimming, both with no title and no
\* description and with a content of whitespace only, the result is exactly
\* ["No content available for this article."].
C5_BlankContentHasNoContentBullet ==
  (Summarized /\ Trimmed = <<>>) => summary = <<NoContentMsg>>

\* C6: when a content of trimmed length >= 50 yields no bullet after
\* splitting, selection and formatting, the result is exactly the one bullet
\* "• Content could not be summarized.".
C6_NoBulletFallsBack ==
  (Summarized /\ Len(Trimmed) >= 50 /\ SentenceList = <<>>) =>
    summary = <<CouldNotMsg>>

\* C7: a content of trimmed length exactly 50 follows the long path, never
\* the short one; the short path is taken only for trimmed lengths 1..49.
C7_ShortPathOnlyBelowLimit ==
  Summarized =>
    /\ Len(Trimmed) = 50 => (LongPathTaken /\ ~ShortPathTaken)
    /\ ShortPathTaken => Len(Trimmed) \in 1..49

\* C8: _split_into_sentences returns, in the original order, exactly the
\* fragments between maximal runs of '.', '!' and '?', each trimmed, the empty
\* ones discarded; no element is empty, has leading or trailing whitespace or
\* contains a delimiter.
C8_SplitCollapsesDelimiterRuns ==
  (mode = "unit" /\ pc = "split") =>
    /\ sentences = Fragments(EffectiveContent)
    /\ \A n \in 1..Len(sentences) :
         LET e == sentences[n]
         IN  /\ e # <<>>
             /\ e[1] # " " /\ e[Len(e)] # " "
             /\ \A m \in 1..Len(e) : ~IsPunct(e[m])

\* C8's case: a text with a run of two delimiters, a blank fragment between
\* two delimiters and a fragment with a space before it, split in two.
C8_Witness ==
  /\ mode = "unit" /\ pc = "split"
  /\ Len(sentences) = 2
  /\ LET t == EffectiveContent
     IN  /\ \E m \in 1..(Len(t) - 1) : IsPunct(t[m]) /\ IsPunct(t[m + 1])
         /\ \E m \in 1..(Len(t) - 2) :
              IsPunct(t[m]) /\ t[m + 1] = " " /\ ~IsPunct(t[m + 2]) /\ t[m + 2] # " "

Fetched == mode = "app" /\ pc # "start"

\* C9: fetch_news never lets an error out and always returns a sequence: the
\* three demo articles, with no request sent, when the API key is empty;
\* with a key, the articles of the response when the request succeeds with
\* status 'ok', and the empty sequence on every failure.
C9_FetchNeverRaises ==
  Fetched =>
    /\ ~fetched.raised
    /\ DOMAIN fetched.value = 1..Len(fetched.value)
    /\ api_key = "" =>
         /\ fetched.requests = 0
         /\ Len(fetched.value) = 3
         /\ fetched.value[1].title = DemoTitle1
         /\ fetched.value[2].title = DemoTitle2
         /\ fetched.value[3].title = DemoTitle3
    /\ api_key # "" =>
         /\ fetched.requests = 1
         /\ world.outcome = "ok" => fetched.value = world.articles
         /\ world.outcome # "ok" => fetched.value = <<>>

\* C9's case: a response that is no JSON, with a key set: nothing returned.
C9_Witness ==
  /\ Fetched
  /\ api_key # ""
  /\ world.outcome = "bad_json"
  /\ fetched = [raised |-> FALSE, value |-> <<>>, requests |-> 1]

\* The positions of the log where op was called for article i.
Calls(op, i) == {p \in 1..Len(log) : log[p].op = op /\ log[p].i = i}

\* The bullets spoken for article i, in the order spoken.
RECURSIVE SpokenIn(_, _)
SpokenIn(l, i) ==
  IF l = <<>> THEN <<>>
  ELSE (IF Head(l).op = "speak" /\ Head(l).i = i THEN <<Head(l).text>> ELSE <<>>)
       \o SpokenIn(Tail(l), i)

Spoken(i) == SpokenIn(log, i)

\* The articles summarized so far, in the order of the calls.
RECURSIVE SummarizedIn(_)
SummarizedIn(l) ==
  IF l = <<>> THEN <<>>
  ELSE (IF Head(l).op = "summarize" THEN <<Head(l).i>> ELSE <<>>)
       \o SummarizedIn(Tail(l))

IsPrefix(s, t) == Len(s) <= Len(t) /\ s = SubSeq(t, 1, Len(s))

\* Summarized before displayed and spoken; what is displayed is the summary
\* of that article; what is spoken is what was displayed, as far as spoken.
SummarizeBeforeShow ==
  \A p \in 1..Len(log) :
    LET e == log[p]
    IN  /\ e.op \in {"display", "speak_title", "speak"} =>
             \E q \in 1..(p - 1) : log[q].op = "summarize" /\ log[q].i = e.i
        /\ e.op = "display" => e.text = summarize_article(articles[e.i])
        /\ e.op = "speak" =>
             \E q \in 1..(p - 1) :
               /\ log[q].op = "display" /\ log[q].i = e.i
               /\ IsPrefix(Spoken(e.i), log[q].text)

\* C10 as claimed: at the end of every run, each article returned has been
\* summarized exactly once, in the order returned, displayed after that, and
\* the bullets spoken for it, if any were, are the Summary displayed; also
\* when voice reading was interrupted.
C10_EveryArticleSummarizedOnce ==
  (mode = "app" /\ pc = "done") =>
    /\ SummarizedIn(log) = [n \in 1..Len(articles) |-> n]
    /\ SummarizeBeforeShow
    /\ \A i \in 1..Len(articles) :
         /\ Cardinality(Calls("display", i)) = 1
         /\ Calls("speak_title", i) # {} =>
              \E q \in Calls("display", i) : Spoken(i) = log[q].text

\* C10 as amended: articles are summarized in the order returned, none
\* skipped and none twice; a summary is displayed and spoken only after its
\* article was summarized, it is that article's summary, and the bullets
\* spoken are a prefix of it.  A run that is not interrupted summarizes and
\* displays every article, and speaks the whole Summary of each article it
\* reads; a run interrupted while article j is read ends there, with
\* articles 1..j summarized and displayed and no later one.
C10_SummarizedInOrderUntilStopped ==
  mode = "app" =>
    LET done == SummarizedIn(log)
        stopped == {p \in 1..Len(log) : log[p].op = "stopped"}
    IN  /\ Len(done) <= Len(articles)
        /\ done = [n \in 1..Len(done) |-> n]
        /\ SummarizeBeforeShow
        /\ \A i \in 1..Len(articles) : Cardinality(Calls("display", i)) <= 1
        /\ pc = "done" =>
             /\ \A i \in 1..Len(done) :
                  /\ Cardinality(Calls("display", i)) = 1
                  /\ (Calls("speak_title", i) # {} /\ Calls("stopped", i) = {}) =>
                       \E q \in Calls("display", i) : Spoken(i) = log[q].text
                  /\ (frontend = "cli" /\ voice /\ engine) =>
                       Calls("speak_title", i) # {} \/ Calls("stopped", i) # {}
             /\ stopped = {} => Len(done) = Len(articles)
             /\ \A p \in stopped : p = Len(log) /\ Len(done) = log[p].i

\* C10's case: two articles returned, voice reading interrupted in the first
\* one after one of its bullets was spoken: the second is never summarized.
C10_Witness ==
  /\ mode = "app" /\ pc = "done"
  /\ Len(articles) = 2
  /\ Calls("stopped", 1) # {}
  /\ Len(Spoken(1)) = 1
  /\ \E q \in Calls("display", 1) : Len(log[q].text) = 3
  /\ SummarizedIn(log) = <<1>>

=============================================================================
